---- MODULE Spec2Model ----
(***************************************************************************)
(* Model of the Task Table page of app.py: the synchronisation between the *)
(* worksheet "Production Plan" (a header row followed by one row per task) *)
(* and the sessions that load it, filter it, and append, replace or delete *)
(* single rows by physical row number.                                     *)
(*                                                                         *)
(* Text is modelled as sequences of one-character strings wherever the     *)
(* program transforms it (column names, date strings); cells the program   *)
(* only copies are plain strings.                                          *)
(***************************************************************************)
EXTENDS Integers, Sequences, FiniteSets, TLC

\* ------------------------------------------------------------------ text

LowerCase == <<"a","b","c","d","e","f","g","h","i","j","k","l","m",
               "n","o","p","q","r","s","t","u","v","w","x","y","z">>

UpperCase == <<"A","B","C","D","E","F","G","H","I","J","K","L","M",
               "N","O","P","Q","R","S","T","U","V","W","X","Y","Z">>

DigitChars == <<"0","1","2","3","4","5","6","7","8","9">>

IsLower(c) == \E i \in 1..Len(LowerCase) : LowerCase[i] = c

IsUpper(c) == \E i \in 1..Len(UpperCase) : UpperCase[i] = c

IsCased(c) == IsLower(c) \/ IsUpper(c)

IsSpace(c) == c = " "

ToUpper(c) ==
    IF IsLower(c)
    THEN UpperCase[CHOOSE i \in 1..Len(LowerCase) : LowerCase[i] = c]
    ELSE c

ToLower(c) ==
    IF IsUpper(c)
    THEN LowerCase[CHOOSE i \in 1..Len(UpperCase) : UpperCase[i] = c]
    ELSE c

\* str.strip(): leading and trailing whitespace removed.
RECURSIVE LStrip(_)
LStrip(s) ==
    IF s # <<>> /\ IsSpace(Head(s)) THEN LStrip(Tail(s)) ELSE s

RECURSIVE RStrip(_)
RStrip(s) ==
    IF s # <<>> /\ IsSpace(s[Len(s)]) THEN RStrip(SubSeq(s, 1, Len(s) - 1)) ELSE s

Strip(s) == RStrip(LStrip(s))

\* str.title(): a cased character is upper-cased when the character before
\* it is not cased (or there is none), lower-cased otherwise.
Title(s) ==
    [i \in 1..Len(s) |->
        IF IsCased(s[i])
        THEN IF i > 1 /\ IsCased(s[i - 1]) THEN ToLower(s[i]) ELSE ToUpper(s[i])
        ELSE s[i]]

\* df.columns.str.strip().str.title()
NormalizeColumn(name) == Title(Strip(name))

LowerAll(s) == [i \in 1..Len(s) |-> ToLower(s[i])]

\* ---------------------------------------------------------------- schema

\* The column names of required_columns, as character sequences.
TaskNameCol == <<"T","a","s","k"," ","N","a","m","e">>

CategoryCol == <<"C","a","t","e","g","o","r","y">>

QuantityCol == <<"Q","u","a","n","t","i","t","y">>

SeamstressCol == <<"S","e","a","m","s","t","r","e","s","s">>

StatusCol == <<"S","t","a","t","u","s">>

PriorityCol == <<"P","r","i","o","r","i","t","y">>

CostCol == <<"C","o","s","t">>

ExpectedFileCol == <<"E","x","p","e","c","t","e","d"," ","F","i","l","e"," ","U","p","l","o","a","d">>

DeliveredFileCol == <<"D","e","l","i","v","e","r","e","d"," ","F","i","l","e"," ","U","p","l","o","a","d">>

TimelineCol == <<"T","i","m","e","l","i","n","e">>

LastUpdatedCol == <<"L","a","s","t"," ","U","p","d","a","t","e","d">>

required_columns ==
    <<TaskNameCol, CategoryCol, QuantityCol, SeamstressCol, StatusCol, PriorityCol,
      CostCol, ExpectedFileCol, DeliveredFileCol, TimelineCol, LastUpdatedCol>>

\* Column names that are not in required_columns, used by header rows that
\* differ from the schema.
NotesCol == <<"N","o","t","e","s">>

PriceCol == <<"P","r","i","c","e">>


\* Header rows (row 1 of the worksheet) the model starts from.  The first is
\* the schema as written; the second differs from it in case and surrounding
\* blanks only; the third has one more column after the schema's; the
\* fourth has the schema's columns with the last two in the other order; the
\* fifth lacks "Cost".
PaddedLower(name) == <<" ">> \o LowerAll(name) \o <<" ", " ">>

HeaderRows ==
    << required_columns,
       [i \in 1..Len(required_columns) |-> PaddedLower(required_columns[i])],
       required_columns \o <<NotesCol>>,
       [i \in 1..Len(required_columns) |->
           IF required_columns[i] = TimelineCol THEN LastUpdatedCol
           ELSE IF required_columns[i] = LastUpdatedCol THEN TimelineCol
           ELSE required_columns[i]],
       [i \in 1..Len(required_columns) |->
           IF required_columns[i] = CostCol THEN PriceCol ELSE required_columns[i]] >>

\* The header rows that keep the schema's columns in the schema's order.
ContractHeaders ==
    {h \in 1..Len(HeaderRows) :
        /\ Len(HeaderRows[h]) = Len(required_columns)
        /\ \A i \in 1..Len(required_columns) :
              NormalizeColumn(HeaderRows[h][i]) = required_columns[i]}

AllHeaders == 1..Len(HeaderRows)

\* df.columns after df.columns.str.strip().str.title(), per header row.
NormalizedHeader ==
    [h \in 1..Len(HeaderRows) |->
        [i \in 1..Len(HeaderRows[h]) |-> NormalizeColumn(HeaderRows[h][i])]]

\* The columns of pd.DataFrame(get_all_records()): the header's names when
\* there is at least one record, none when the list of records is empty.
DfColumns(h, recs) == IF recs = <<>> THEN <<>> ELSE NormalizedHeader[h]

HasColumn(cols, name) == \E i \in 1..Len(cols) : cols[i] = name

\* A check that reports the columns only when none of them is there.
missing_cols_unless_any(cols) ==
    IF \E i \in 1..Len(required_columns) : HasColumn(cols, required_columns[i])
    THEN <<>>
    ELSE required_columns

\* missing_cols = [col for col in required_columns if col not in df.columns]
missing_cols(cols) ==
    SelectSeq(required_columns, LAMBDA col : ~HasColumn(cols, col))

\* The position of df[name] among the columns.
ColumnIndex(cols, name) == CHOOSE i \in 1..Len(cols) : cols[i] = name

\* ----------------------------------------------------------------- dates

\* A date is <<year, month, day>>; NaT (and a blank date cell) is <<>>.
NaT == <<>>

IsLeap(y) == (y % 4 = 0 /\ y % 100 # 0) \/ y % 400 = 0

DaysInMonth(y, m) ==
    IF m = 2 THEN (IF IsLeap(y) THEN 29 ELSE 28)
    ELSE IF m \in {4, 6, 9, 11} THEN 30 ELSE 31

NextDay(d) ==
    IF d[3] < DaysInMonth(d[1], d[2]) THEN <<d[1], d[2], d[3] + 1>>
    ELSE IF d[2] < 12 THEN <<d[1], d[2] + 1, 1>>
    ELSE <<d[1] + 1, 1, 1>>

\* n written in decimal, zero-padded to w digits.
RECURSIVE ZeroPad(_, _)
ZeroPad(n, w) ==
    IF w = 0 THEN <<>>
    ELSE ZeroPad(n \div 10, w - 1) \o <<DigitChars[(n % 10) + 1]>>

\* strftime("%Y-%m-%d")
strftime(d) ==
    ZeroPad(d[1], 4) \o <<"-">> \o ZeroPad(d[2], 2) \o <<"-">> \o ZeroPad(d[3], 2)

\* str(pd.Timestamp) of a date at midnight, "NaT" for NaT: what a parsed
\* "Last Updated" value becomes when it is written back to a cell.
TimestampStr(d) ==
    IF d = NaT THEN <<"N","a","T">>
    ELSE strftime(d) \o <<" ","0","0",":","0","0",":","0","0">>

IsDigit(c) == \E i \in 1..Len(DigitChars) : DigitChars[i] = c

DigitValue(c) == (CHOOSE i \in 1..Len(DigitChars) : DigitChars[i] = c) - 1

RECURSIVE ParseNat(_)
ParseNat(s) ==
    IF s = <<>> THEN 0
    ELSE 10 * ParseNat(SubSeq(s, 1, Len(s) - 1)) + DigitValue(s[Len(s)])

AllDigits(s) == \A i \in 1..Len(s) : IsDigit(s[i])

\* pd.to_datetime(text, errors='coerce'), for the texts the cells of a date
\* column hold here: "YYYY-MM-DD", the same followed by " 00:00:00", or
\* anything else (blank, "NaT"), which is coerced to NaT.
to_datetime(s) ==
    LET datePart == SubSeq(s, 1, 10)
        timePart == SubSeq(s, 11, Len(s))
        wellFormed ==
            /\ Len(s) \in {10, 19}
            /\ AllDigits(SubSeq(s, 1, 4)) /\ s[5] = "-"
            /\ AllDigits(SubSeq(s, 6, 7)) /\ s[8] = "-"
            /\ AllDigits(SubSeq(s, 9, 10))
            /\ timePart \in {<<>>, <<" ","0","0",":","0","0",":","0","0">>}
        y == ParseNat(SubSeq(datePart, 1, 4))
        m == ParseNat(SubSeq(datePart, 6, 7))
        d == ParseNat(SubSeq(datePart, 9, 10))
    IN  IF wellFormed /\ y >= 1 /\ m \in 1..12 /\ d \in 1..DaysInMonth(y, m)
        THEN <<y, m, d>>
        ELSE NaT


\* ------------------------------------------------------------- worksheet

\* A worksheet row is a sequence of cells.  The first nine cells are plain
\* strings or numbers; cells from the tenth on hold date text and are
\* character sequences.  A cell nothing was written to reads as blank.
BlankCell(i) == IF i <= 9 THEN "" ELSE <<>>

IsBlankRow(row) == \A i \in 1..Len(row) : row[i] = BlankCell(i)

\* The worksheet's rows end at the last row that holds anything.
RECURSIVE TrimBlankRows(_)
TrimBlankRows(recs) ==
    IF recs # <<>> /\ IsBlankRow(recs[Len(recs)])
    THEN TrimBlankRows(SubSeq(recs, 1, Len(recs) - 1))
    ELSE recs

\* plan_ws.append_row(values): a new row after the last one.
append_row(recs, values) == Append(recs, values)

\* plan_ws.delete_row(index): index counts worksheet rows from 1, the header
\* being row 1, so record k is row k + 1.  Deleting a row below the last
\* one removes an empty row.
delete_row(recs, index) ==
    LET k == index - 1
    IN  IF k \in 1..Len(recs)
        THEN TrimBlankRows(SubSeq(recs, 1, k - 1) \o SubSeq(recs, k + 1, Len(recs)))
        ELSE recs

\* plan_ws.insert_row(values, index): the rows from index on move down by
\* one.  Inserting below the last row leaves the rows in between empty.
insert_row(recs, values, index) ==
    LET k == index - 1
    IN  IF k <= Len(recs) + 1
        THEN SubSeq(recs, 1, k - 1) \o <<values>> \o SubSeq(recs, k, Len(recs))
        ELSE recs \o [i \in 1..(k - 1 - Len(recs)) |-> <<>>] \o <<values>>

\* What a raising plan_ws.insert_row(values, index) leaves of the worksheet:
\* the exception ends the run and nothing puts back the row that
\* plan_ws.delete_row(index) removed just before.
insert_row_rolled_back(recs, old, values, index) ==
    insert_row(recs, old, index)

insert_row_raises(recs, old, values, index) == recs

\* plan_ws.get_all_records(): one record per row below the header, keyed by
\* the header's names; a row shorter than the header is padded with blanks.
get_all_records(h, recs) ==
    [r \in 1..Len(recs) |->
        [i \in 1..Len(HeaderRows[h]) |->
            IF i <= Len(recs[r]) THEN recs[r][i] ELSE BlankCell(i)]]

\* The rows of df once df["Last Updated"] = pd.to_datetime(...) has run.
LoadFrame(h, recs) ==
    LET cols == NormalizedHeader[h]
        lu   == ColumnIndex(cols, LastUpdatedCol)
        raw  == get_all_records(h, recs)
    IN  [r \in 1..Len(raw) |-> [raw[r] EXCEPT ![lu] = to_datetime(raw[r][lu])]]

Field(cols, row, name) == row[ColumnIndex(cols, name)]

\* df[name].unique()
Unique(cols, rows, name) == {Field(cols, rows[r], name) : r \in 1..Len(rows)}

\* filtered_df, as the index labels of the rows it keeps (labels are the
\* positions in df, counted from 1 here and from 0 in pandas).  An empty
\* selection in a filter keeps everything.
FilterLabels(cols, rows, filter1, filter2) ==
    LET keep(r) ==
            /\ filter1 # {} => Field(cols, rows[r], StatusCol) \in filter1
            /\ filter2 # {} => Field(cols, rows[r], CategoryCol) \in filter2
        RECURSIVE Walk(_)
        Walk(r) == IF r > Len(rows) THEN <<>>
                   ELSE (IF keep(r) THEN <<r>> ELSE <<>>) \o Walk(r + 1)
    IN  Walk(1)

\* df.index[df["Task Name"] == name]: the labels of the rows named name.
NameMatches(cols, rows, name) ==
    {r \in 1..Len(rows) : Field(cols, rows[r], TaskNameCol) = name}

NamesUnique(cols, rows) ==
    \A i, j \in 1..Len(rows) :
        Field(cols, rows[i], TaskNameCol) = Field(cols, rows[j], TaskNameCol) => i = j

Min(S) == CHOOSE x \in S : \A y \in S : x <= y

Max(S) == CHOOSE x \in S : \A y \in S : x >= y

\* The lookup taking the last match, [-1], in place of the first.
row_number_last_match(cols, rows, name) ==
    (Max(NameMatches(cols, rows, name)) - 1) + 2

\* row_number = df.index[df["Task Name"] == name][0] + 2, with the pandas
\* label (from 0) of the model's label r being r - 1.
row_number(cols, rows, name) == (Min(NameMatches(cols, rows, name)) - 1) + 2

\* new_row = updated_df.iloc[row_index].tolist(); new_row[-1] = today's date.
\* gridRow is the selected row of the grid's data: the cells of the frame,
\* the parsed "Last Updated" among them, which goes back as its text.
new_row(cols, gridRow, today) ==
    LET lu == ColumnIndex(cols, LastUpdatedCol)
    IN  [i \in 1..Len(gridRow) |->
            IF i = Len(gridRow) THEN strftime(today)
            ELSE IF i = lu THEN TimestampStr(gridRow[i])
            ELSE gridRow[i]]

\* The form's list without the stamp: the due date twice.
form_row_unstamped(task, category, qty, seamstress, status, priority, cost, exp_file, del_file, due, today) ==
    <<task, category, qty, seamstress, status, priority,
      cost, exp_file, del_file, strftime(due), strftime(due)>>

\* The list add_task_form passes to append_row.
form_row(task, category, qty, seamstress, status, priority, cost, exp_file, del_file, due, today) ==
    <<task, category, qty, seamstress, status, priority,
      cost, exp_file, del_file, strftime(due), strftime(today)>>


\* ----------------------------------------------------------------- bounds

\* No more than MaxRows records in the worksheet (Add Task is not taken
\* beyond it), no more than MaxWrites writing interactions in a behaviour,
\* no more than MaxDays changes of date.
MaxRows == 3

MaxWrites == 2

MaxDays == 1

Sessions == {"s1", "s2"}

\* What the users type and pick.
\* The edits made in the grid: a task name typed over a row's, a status
\* picked for a row.
EditNames == {"Alice"}

EditStatus == {"Done"}

\* The tasks that rows start from, in worksheet order, and that the add
\* form is filled with: <<task name, category, status>>.  The first and the
\* third share a task name.
SampleTasks ==
    << <<"Alice", "Stitching", "Working">>,
       <<"Bob", "Labelling", "Done">>,
       <<"Alice", "Labelling", "Done">>,
       <<"Carol", "Stitching", "Working">> >>

FormTasks == {SampleTasks[i] : i \in {1, 2}}

DueDate == <<2025, 3, 15>>

FirstDay == <<2024, 12, 31>>

\* The date the rows the model starts with were last updated.
EarlierDay == <<2024, 2, 29>>

\* A row the worksheet starts with, laid out by header row h: each column
\* holds the value of the field the column is named for.
SampleRow(h, t) ==
    LET cols == NormalizedHeader[h]
    IN  [i \in 1..Len(cols) |->
            IF cols[i] = TaskNameCol THEN t[1]
            ELSE IF cols[i] = CategoryCol THEN t[2]
            ELSE IF cols[i] = StatusCol THEN t[3]
            ELSE IF cols[i] \in {QuantityCol} THEN 1
            ELSE IF cols[i] \in {CostCol, PriceCol} THEN 0
            ELSE IF cols[i] = SeamstressCol THEN "Mia"
            ELSE IF cols[i] = PriorityCol THEN "Low"
            ELSE IF cols[i] = TimelineCol THEN strftime(DueDate)
            ELSE IF cols[i] = LastUpdatedCol THEN strftime(EarlierDay)
            ELSE BlankCell(i)]

\* The subsequences of seq that keep the elements at the positions in P.
SubSequence(seq, P) ==
    LET RECURSIVE Walk(_)
        Walk(i) == IF i > Len(seq) THEN <<>>
                   ELSE (IF i \in P THEN <<seq[i]>> ELSE <<>>) \o Walk(i + 1)
    IN  Walk(1)

\* The tables the worksheet starts as: the sample tasks, some left out, at
\* least one and at most MaxRows kept.
InitialTables(h) ==
    {[r \in 1..Len(ts) |-> SampleRow(h, ts[r])] :
        ts \in {SubSequence(SampleTasks, P) :
                  P \in {Q \in SUBSET (1..Len(SampleTasks)) :
                           Cardinality(Q) \in 1..MaxRows}}}

\* ------------------------------------------------------------------ state

VARIABLES
    hdr,       \* which of HeaderRows is row 1 of the worksheet
    records,   \* the worksheet's rows below the header
    today,     \* datetime.today(), as a date
    days,      \* how many times the date has changed
    pc,        \* per session: where its script run stands
    df,        \* per session: the rows of df of its last successful load
    pending,   \* per session: row_number and new_row between delete and insert
    nwrites,   \* history: successful writes to the worksheet so far
    seen,      \* history: per session, nwrites when its run read the worksheet
    last       \* history: the last successful write

vars == <<hdr, records, today, days, pc, df, pending, nwrites, seen, last>>

NoWrite ==
    [op |-> "none", by |-> "", before |-> <<>>, row_number |-> 0, label |-> 0,
     record |-> <<>>, name |-> "", edited |-> FALSE,
     unique |-> FALSE, stale |-> FALSE, written |-> <<>>, day |-> <<>>]

InitSessions(active) ==
    /\ pc = [s \in Sessions |-> IF s \in active THEN "run" ELSE "closed"]
    /\ df = [s \in Sessions |-> <<>>]
    /\ pending = [s \in Sessions |-> NoWrite]
    /\ seen = [s \in Sessions |-> 0]
    /\ today = FirstDay
    /\ days = 0
    /\ nwrites = 0
    /\ last = NoWrite

\* One session, a header row that keeps the schema.
Init ==
    /\ hdr \in ContractHeaders
    /\ records \in InitialTables(hdr)
    /\ InitSessions({"s1"})

\* One session, any of the header rows.
InitSchema ==
    /\ hdr \in AllHeaders
    /\ records \in InitialTables(hdr)
    /\ InitSessions({"s1"})

\* Two sessions on the worksheet with the schema's header row.
InitShared ==
    /\ hdr = 1
    /\ records \in {t \in InitialTables(hdr) :
                       Len(t) >= 3 /\ NamesUnique(NormalizedHeader[hdr], t)
                       /\ t[1] = SampleRow(hdr, SampleTasks[1])}
    /\ InitSessions(Sessions)


\* ---------------------------------------------------------------- actions

Columns == NormalizedHeader[hdr]

\* The rows the grid can hand back for row `row` of the frame: the row as
\* loaded, or with its task name or its status edited in the grid.
GridEdits(cols, row) ==
    {row}
    \cup {[row EXCEPT ![ColumnIndex(cols, TaskNameCol)] = n] : n \in EditNames}
    \cup {[row EXCEPT ![ColumnIndex(cols, StatusCol)] = st] : st \in EditStatus}

\* Lines 69-76: the filter widgets offer the values present in df, and
\* filtered_df is what the grid shows.
FilterChoices(s) ==
    (SUBSET Unique(Columns, df[s], StatusCol))
        \X (SUBSET Unique(Columns, df[s], CategoryCol))

filtered_df(s, f) == FilterLabels(Columns, df[s], f[1], f[2])

\* The row number taken from the row's place in the grid, row_index + 2.
RowNumberByGridPlace(s, f, k, gridRow) == (k - 1) + 2

\* Line 101: the row number for the grid's selected row, whose data is
\* gridRow and whose place in the grid is k (nodeRowIndex k - 1).
SelectedRowNumber(s, f, k, gridRow) ==
    row_number(Columns, df[s], Field(Columns, gridRow, TaskNameCol))

\* What a click on a button of "Selected Row Actions" works with.
Selection(s, f, k, gridRow, op) ==
    LET name  == Field(Columns, gridRow, TaskNameCol)
        label == filtered_df(s, f)[k]
    IN  [op |-> op, by |-> s, before |-> records,
         row_number |-> SelectedRowNumber(s, f, k, gridRow),
         label |-> label,
         record |-> df[s][label], name |-> name,
         edited |-> name # Field(Columns, df[s][label], TaskNameCol),
         unique |-> NamesUnique(Columns, df[s]),
         stale |-> seen[s] # nwrites,
         written |-> IF op = "delete" THEN <<>> ELSE new_row(Columns, gridRow, today),
         day |-> today]

\* The grid rows the grid can report as selected: under a filter choice f,
\* row k of the grid with that row's data, edited or not.
GridRows(s) ==
    UNION {UNION {{<<f, k, g>> :
                     g \in GridEdits(Columns, df[s][filtered_df(s, f)[k]])} :
                  k \in 1..Len(filtered_df(s, f))} :
           f \in FilterChoices(s)}

Matched(s, gridRow) ==
    NameMatches(Columns, df[s], Field(Columns, gridRow, TaskNameCol)) # {}

\* What the clicks on the buttons of "Selected Row Actions" can work with.
Selections(s, op) ==
    {Selection(s, x[1], x[2], x[3], op) : x \in {y \in GridRows(s) : Matched(s, y[3])}}

EndRun(s, to) ==
    /\ pc' = [pc EXCEPT ![s] = to]
    /\ df' = [df EXCEPT ![s] = <<>>]

\* Lines 29-40: read the worksheet and check the columns.  With no record
\* at all the frame has no columns, so every required column is missing (a
\* pandas that refuses .str on the empty column index ends the run at line
\* 30 instead; the page is not rendered either way).
Load(s) ==
    /\ pc[s] = "run"
    /\ \/ /\ EndRun(s, "error")
          /\ UNCHANGED seen
       \/ /\ missing_cols(DfColumns(hdr, records)) # <<>>
          /\ EndRun(s, "stopped")
          /\ seen' = [seen EXCEPT ![s] = nwrites]
       \/ /\ missing_cols(DfColumns(hdr, records)) = <<>>
          /\ df' = [df EXCEPT ![s] = LoadFrame(hdr, records)]
          /\ pc' = [pc EXCEPT ![s] = "view"]
          /\ seen' = [seen EXCEPT ![s] = nwrites]
    /\ UNCHANGED <<hdr, records, today, days, pending, nwrites, last>>

\* Lines 60-66: "Add Task".
AddTask(s) ==
    /\ pc[s] = "view"
    /\ Len(records) < MaxRows
    /\ nwrites < MaxWrites
    /\ \E t \in FormTasks :
          LET values == form_row(t[1], t[2], 1, "Mia", t[3], "Low", 0, "", "",
                                 DueDate, today)
          IN  \/ /\ records' = append_row(records, values)
                 /\ nwrites' = nwrites + 1
                 /\ last' = [NoWrite EXCEPT !.op = "append", !.by = s,
                                !.before = records, !.written = values,
                                !.record = t,
                                !.day = today, !.stale = (seen[s] # nwrites)]
                 /\ EndRun(s, "run")
              \/ /\ EndRun(s, "error")
                 /\ UNCHANGED <<records, nwrites, last>>
    /\ seen' = [seen EXCEPT ![s] = 0]
    /\ UNCHANGED <<hdr, today, days, pending>>

\* Line 101 when no row of df has the selected row's task name: [0] raises.
SelectUnmatched(s) ==
    /\ pc[s] = "view"
    /\ \E x \in GridRows(s) : ~Matched(s, x[3])
    /\ EndRun(s, "error")
    /\ seen' = [seen EXCEPT ![s] = 0]
    /\ UNCHANGED <<hdr, records, today, days, pending, nwrites, last>>

\* Lines 104-107: "Update Selected Task" up to plan_ws.delete_row.
UpdateTask(s) ==
    /\ pc[s] = "view"
    /\ nwrites < MaxWrites
    /\ \E sel \in Selections(s, "update_delete") :
          \/ /\ records' = delete_row(records, sel.row_number)
             /\ nwrites' = nwrites + 1
             /\ last' = sel
             /\ pending' = [pending EXCEPT ![s] = sel]
             /\ EndRun(s, "updating")
             /\ UNCHANGED seen
          \/ /\ EndRun(s, "error")
             /\ seen' = [seen EXCEPT ![s] = 0]
             /\ UNCHANGED <<records, nwrites, last, pending>>
    /\ UNCHANGED <<hdr, today, days>>

\* The worksheet row that the delete_row of selection p removed.
DeletedRow(p) ==
    IF p.row_number - 1 \in 1..Len(p.before) THEN p.before[p.row_number - 1] ELSE <<>>

\* Lines 108-110: plan_ws.insert_row and the rerun.  When insert_row raises
\* the run ends there: the row deleted at line 107 is not put back.
UpdateInsert(s) ==
    /\ pc[s] = "updating"
    /\ LET p == [pending[s] EXCEPT !.stale = (nwrites # seen[s] + 1)]
       IN  \/ /\ records' = insert_row(records, p.written, p.row_number)
              /\ nwrites' = nwrites + 1
              /\ last' = [p EXCEPT !.op = "update"]
              /\ EndRun(s, "run")
           \/ /\ records' = insert_row_raises(records, DeletedRow(p),
                                               p.written, p.row_number)
              /\ last' = [p EXCEPT !.op = "update_lost"]
              /\ EndRun(s, "error")
              /\ UNCHANGED nwrites
    /\ pending' = [pending EXCEPT ![s] = NoWrite]
    /\ seen' = [seen EXCEPT ![s] = 0]
    /\ UNCHANGED <<hdr, today, days>>

\* Lines 111-114: "Delete Selected Task".
DeleteTask(s) ==
    /\ pc[s] = "view"
    /\ nwrites < MaxWrites
    /\ \E sel \in Selections(s, "delete") :
          \/ /\ records' = delete_row(records, sel.row_number)
             /\ nwrites' = nwrites + 1
             /\ last' = sel
             /\ EndRun(s, "run")
          \/ /\ EndRun(s, "error")
             /\ UNCHANGED <<records, nwrites, last>>
    /\ seen' = [seen EXCEPT ![s] = 0]
    /\ UNCHANGED <<hdr, today, days, pending>>

\* Any interaction with the page runs the script again from the top.
Rerun(s) ==
    /\ pc[s] \in {"view", "stopped", "error"}
    /\ EndRun(s, "run")
    /\ seen' = [seen EXCEPT ![s] = 0]
    /\ UNCHANGED <<hdr, records, today, days, pending, nwrites, last>>

\* datetime.today() moves on to the next day.
NewDay ==
    /\ days < MaxDays
    /\ today' = NextDay(today)
    /\ days' = days + 1
    /\ UNCHANGED <<hdr, records, pc, df, pending, nwrites, seen, last>>

Next ==
    \/ \E s \in Sessions : Load(s)
    \/ \E s \in Sessions : AddTask(s)
    \/ \E s \in Sessions : SelectUnmatched(s)
    \/ \E s \in Sessions : UpdateTask(s)
    \/ \E s \in Sessions : UpdateInsert(s)
    \/ \E s \in Sessions : DeleteTask(s)
    \/ \E s \in Sessions : Rerun(s)
    \/ NewDay

Spec == Init /\ [][Next]_vars

SpecSchema == InitSchema /\ [][Next]_vars

SpecShared == InitShared /\ [][Next]_vars


\* ----------------------------------------------------------------- claims

RemoveAt(seq, i) == SubSeq(seq, 1, i - 1) \o SubSeq(seq, i + 1, Len(seq))

ReplaceAt(seq, i, x) == [j \in 1..Len(seq) |-> IF j = i THEN x ELSE seq[j]]

\* What a load of the worksheet rows recs gives.
Loaded(recs) == LoadFrame(hdr, recs)

\* Session s has run its load after the last write to the worksheet.
Synced(s) == pc[s] \in {"view", "stopped"} /\ seen[s] = nwrites

\* The last write went to a row picked in the grid.
PickedRowWrite == last.op \in {"delete", "update_delete", "update", "update_lost"}

\* Some name of required_columns is not among the column names cols.
LacksRequired(cols) ==
    \E i \in 1..Len(required_columns) :
        \A j \in 1..Len(cols) : cols[j] # required_columns[i]

\* The record the last write's row number pointed at.
Target == last.row_number - 1

\* C1: after an update whose delete and insert both succeeded, with no other
\* writer, the next load has the same number of records, the replacement at
\* the selected record's position and every other record as before.
C1_ReplaceThenLoad ==
    \A s \in Sessions :
        (Synced(s) /\ last.op = "update" /\ ~last.stale /\ ~last.edited) =>
            /\ pc[s] = "view"
            /\ df[s] = ReplaceAt(Loaded(last.before), last.label,
                                 Loaded(<<last.written>>)[1])

\* C1, where the selected record is the first of its name: the statement
\* that holds.
C1_ReplaceFirstOfName ==
    \A s \in Sessions :
        (Synced(s) /\ last.op = "update" /\ ~last.stale /\ Target = last.label) =>
            /\ pc[s] = "view"
            /\ df[s] = ReplaceAt(Loaded(last.before), last.label,
                                 Loaded(<<last.written>>)[1])

\* C2: after a delete of the row at position p, the next load gives the
\* records before it without the p-th, the later ones moved up by one.
C2_DeleteThenLoad ==
    \A s \in Sessions :
        (Synced(s) /\ last.op = "delete" /\ ~last.stale) =>
            /\ pc[s] = "view"
            /\ df[s] = Loaded(RemoveAt(last.before, Target))

\* C2, for a table of at least two records: the statement that holds.
C2_DeleteOfSeveral ==
    \A s \in Sessions :
        (Synced(s) /\ last.op = "delete" /\ ~last.stale /\ Len(last.before) >= 2) =>
            /\ pc[s] = "view"
            /\ df[s] = Loaded(RemoveAt(last.before, Target))

\* C3: whatever records the worksheet holds, none included, a run that read
\* it offers the add form: the run is stopped only for a header row that
\* lacks a required column.
C3_AddAlwaysOffered ==
    \A s \in Sessions :
        pc[s] = "stopped" => LacksRequired(NormalizedHeader[hdr])

\* C4: after an append, the next load is one record longer; the records
\* before are unchanged and the last one has the form's values, its
\* "Last Updated" being the date of the append.
C4_AppendThenLoad ==
    \A s \in Sessions :
        (Synced(s) /\ last.op = "append") =>
            /\ pc[s] = "view"
            /\ Len(df[s]) = Len(last.before) + 1
            /\ SubSeq(df[s], 1, Len(last.before)) = Loaded(last.before)
            /\ LET r == df[s][Len(df[s])]
               IN  /\ Field(Columns, r, TaskNameCol) = last.record[1]
                   /\ Field(Columns, r, CategoryCol) = last.record[2]
                   /\ Field(Columns, r, StatusCol) = last.record[3]
                   /\ Field(Columns, r, QuantityCol) = 1
                   /\ Field(Columns, r, SeamstressCol) = "Mia"
                   /\ Field(Columns, r, PriorityCol) = "Low"
                   /\ Field(Columns, r, CostCol) = 0
                   /\ Field(Columns, r, ExpectedFileCol) = ""
                   /\ Field(Columns, r, DeliveredFileCol) = ""
                   /\ Field(Columns, r, TimelineCol) = strftime(DueDate)
                   /\ Field(Columns, r, LastUpdatedCol) = last.day

\* C4's case: a session has loaded after an append made on a later day than
\* the rows before it were stamped.
C4_Witness ==
    \E s \in Sessions :
        /\ Synced(s) /\ pc[s] = "view" /\ last.op = "append"
        /\ last.day # FirstDay
        /\ Len(last.before) >= 2

\* C5: with unique task names, deleting a record picked in the grid, under
\* any filter, removes that record's own row, and the next load gives the
\* records before it without that one.
C5_DeleteFromFilteredView ==
    \A s \in Sessions :
        (Synced(s) /\ last.op = "delete" /\ last.unique /\ ~last.edited
            /\ ~last.stale) =>
            /\ pc[s] = "view"
            /\ df[s] = Loaded(RemoveAt(last.before, last.label))

\* C5, for a table of at least two records: the statement that holds.
C5_DeleteFromFilteredViewOfSeveral ==
    \A s \in Sessions :
        (Synced(s) /\ last.op = "delete" /\ last.unique /\ ~last.edited
            /\ ~last.stale /\ Len(last.before) >= 2) =>
            /\ pc[s] = "view"
            /\ df[s] = Loaded(RemoveAt(last.before, last.label))

\* C6: a run that loads a table whose normalised column names lack a
\* required column stops with nothing to show, and no write is ever issued
\* to a worksheet whose header row lacks one: a session shows the page, or
\* is in the middle of an update, only over a header row with every
\* required column and a frame with records.
C6_SchemaCheck ==
    \A s \in Sessions :
        /\ pc[s] \in {"view", "updating"} => ~LacksRequired(NormalizedHeader[hdr])
        /\ pc[s] = "view" => df[s] # <<>>
        /\ pc[s] = "stopped" =>
              /\ df[s] = <<>>
              /\ LacksRequired(DfColumns(hdr, records))
        /\ LacksRequired(NormalizedHeader[hdr]) => last.op = "none" /\ nwrites = 0

\* C6's case: a run stopped over a worksheet that has records and whose
\* header row lacks a required column.
C6_Witness ==
    \E s \in Sessions :
        /\ pc[s] = "stopped"
        /\ records # <<>>
        /\ LacksRequired(NormalizedHeader[hdr])

\* C7: in a table that passed the column check, the row an append or an
\* update writes has the date of the write in its "Last Updated" column.
C7_StampOnWrite ==
    last.op \in {"append", "update"} =>
        LET lu == ColumnIndex(Columns, LastUpdatedCol)
        IN  /\ lu <= Len(last.written)
            /\ last.written[lu] = strftime(last.day)

\* C7, for header rows that keep the schema's columns in the schema's
\* order: the statement that holds.
C7_StampOnWriteInSchemaOrder ==
    (hdr \in ContractHeaders /\ last.op \in {"append", "update"}) =>
        LET lu == ColumnIndex(Columns, LastUpdatedCol)
        IN  /\ lu <= Len(last.written)
            /\ last.written[lu] = strftime(last.day)

\* C7, second half: a delete leaves the "Last Updated" of every row that
\* stays as it was.
C7_DeleteKeepsStamps ==
    last.op = "delete" =>
        \E i \in 1..(Len(last.before) + 1) :
            records = TrimBlankRows(RemoveAt(last.before, i))

\* C8: once the insert of an update has failed after its delete, the
\* worksheet is the one before the update without the targeted row, nothing
\* is pending for the session, and every load since shows that table.
C8_LostRow ==
    last.op = "update_lost" =>
        /\ Target \in 1..Len(last.before)
        /\ records = RemoveAt(last.before, Target)
        /\ pc[last.by] # "updating"
        /\ pending[last.by] = NoWrite
        /\ \A s \in Sessions :
              Synced(s) /\ pc[s] = "view" => df[s] = Loaded(RemoveAt(last.before, Target))

\* C8's case: after the failed insert the session has loaded again and sees
\* one record fewer.
C8_Witness ==
    /\ last.op = "update_lost"
    /\ pc[last.by] = "view"
    /\ Synced(last.by)
    /\ Len(df[last.by]) = Len(last.before) - 1

\* C9: with a single session, the row a delete or an update goes to is the
\* first row of the loaded table whose task name is the selected record's;
\* it is the selected record's row or an earlier one of the same name.
C9_FirstRowOfName ==
    PickedRowWrite =>
        /\ Target \in 1..Len(last.before)
        /\ Field(Columns, Loaded(last.before)[Target], TaskNameCol) = last.name
        /\ \A j \in 1..(Target - 1) :
              Field(Columns, Loaded(last.before)[j], TaskNameCol) # last.name
        /\ ~last.edited => Target <= last.label

\* C9's case: the later of two records of one name was selected, the write
\* went to the earlier one, and the session's next load went through.
C9_Witness ==
    /\ last.op \in {"delete", "update"}
    /\ ~last.edited
    /\ Target < last.label
    /\ Loaded(last.before)[Target] # last.record
    /\ pc[last.by] = "view"

\* C10: with unique task names and the selected record's name not edited, a
\* delete or an update goes to the selected record's own row unless another
\* write reached the worksheet between the session's load and its write.
C10_WrongRowOnlyWhenStale ==
    (PickedRowWrite /\ last.unique /\ ~last.edited /\ ~last.stale) =>
        /\ Target = last.label
        /\ Target \in 1..Len(last.before)
        /\ Loaded(last.before)[Target] = last.record

\* C10's case: task names unique in the session's load and in the worksheet
\* at the write, and the row deleted is a record other than the selected one.
C10_Witness ==
    /\ last.op = "delete"
    /\ last.unique /\ ~last.edited /\ last.stale
    /\ NamesUnique(Columns, Loaded(last.before))
    /\ Target \in 1..Len(last.before)
    /\ Loaded(last.before)[Target] # last.record
    /\ Field(Columns, Loaded(last.before)[Target], TaskNameCol) # last.name

====
